---- MODULE Spec2Model ----
(***************************************************************************)
(* GAuthify-Python, gauthify/common.py: the request handler (endpoint      *)
(* failover and status-code classification) and the public operations      *)
(* built on it.                                                            *)
(*                                                                         *)
(* Python values are modelled as follows.                                  *)
(*   - a JSON value carried in "data" is a record [type, val];             *)
(*   - a parsed body (req.json) is a record [isdict, data, error_message,  *)
(*     error_code]; a key the dict does not hold has the value Absent      *)
(*     (NoData for "data"), so `k in d` is `d[k] # Absent`;                *)
(*   - the outcome of a call is a record [kind, cls, msg, http_status,     *)
(*     error_code, response_body, value], kind being "return" or "raise";  *)
(*   - a response object (req) is named by the position of the endpoint    *)
(*     that produced it, 0 standing for the initial ''.                    *)
(***************************************************************************)
EXTENDS Integers, Sequences, FiniteSets, TLC

VARIABLES
    access_points,   \* self.access_points
    headers,         \* self.headers
    pc,              \* "idle", "request", "finish", "done"
    op,              \* the public operation being executed
    args,            \* its arguments
    type,            \* request_handler's type
    url_addon,       \* request_handler's url_addon
    params,          \* request_handler's params
    idx,             \* number of entries of access_points the loop has left behind
    status_code,     \* request_handler's local status_code
    json_resp,       \* request_handler's local json_resp
    req,             \* request_handler's local req
    attempts,        \* history: the requests issued by the current call, in order
    rh,              \* outcome of request_handler
    result,          \* outcome of the public operation
    current,         \* quick_test's local current
    entry            \* history: access_points and headers when the operation started

vars == <<access_points, headers, pc, op, args, type, url_addon, params, idx,
          status_code, json_resp, req, attempts, rh, result, current, entry>>

-----------------------------------------------------------------------------
(* Bounds of the model *)

\* Longest endpoint list a caller installs in self.access_points.
MaxEndpoints == 2

-----------------------------------------------------------------------------
(* Python values *)

Absent == "<absent>"
NoneStr == "<None>"

NoData == [type |-> "absent", val |-> ""]
NoneVal == [type |-> "NoneType", val |-> "None"]
TrueVal == [type |-> "bool", val |-> "True"]
FalseVal == [type |-> "bool", val |-> "False"]
AuthTrue == [type |-> "dict", val |-> "authenticated:True"]
AuthFalse == [type |-> "dict", val |-> "authenticated:False"]
UserList == [type |-> "list", val |-> "users"]

\* The payloads a server puts in "data".
DataValues == {AuthTrue, AuthFalse, UserList}

EmptyDict ==
    [isdict |-> TRUE, data |-> NoData, error_message |-> Absent, error_code |-> Absent]

\* req.json of a body that is no JSON object.
NotADict ==
    [isdict |-> FALSE, data |-> NoData, error_message |-> Absent, error_code |-> Absent]

\* The error envelopes of a server: error_message and error_code, or only the
\* first of them (a dict holding neither is EmptyDict).
ErrorBodies ==
    { [isdict |-> TRUE, data |-> NoData, error_message |-> "refused", error_code |-> Absent],
      [isdict |-> TRUE, data |-> NoData, error_message |-> "refused", error_code |-> "E1"] }

\* The envelopes of a server that carry a payload.
DataBodies ==
    { [isdict |-> TRUE, data |-> d, error_message |-> Absent, error_code |-> Absent] :
        d \in DataValues }

StatusCodes == {200, 400, 401, 402, 404, 406, 409, 500}

\* What requests.request does for one endpoint: it raises a RequestException
\* (exc) or gives a response with a status code and a parsed body.
Unreachable == [exc |-> TRUE, status |-> 0, json |-> EmptyDict]

Response(s, b) == [exc |-> FALSE, status |-> s, json |-> b]

\* Any status code comes with a body that is no JSON object or with an empty
\* JSON object, an error status also with an error envelope, 200 with a payload.
Responses ==
    {Unreachable}
    \cup { Response(s, b) : s \in StatusCodes, b \in {NotADict, EmptyDict} }
    \cup { Response(s, b) : s \in StatusCodes \ {200}, b \in ErrorBodies }
    \cup { Response(200, b) : b \in DataBodies }

-----------------------------------------------------------------------------
(* Outcomes *)

NoOutcome ==
    [kind |-> "none", cls |-> "", msg |-> "", http_status |-> 0,
     error_code |-> "", response_body |-> 0, value |-> NoneVal]

Return(v) ==
    [kind |-> "return", cls |-> "", msg |-> "", http_status |-> 0,
     error_code |-> "", response_body |-> 0, value |-> v]

\* GAuthifyError.__init__(msg, http_status, error_code, response_body)
GAuthifyError(cls, msg, http_status, error_code, response_body) ==
    [kind |-> "raise", cls |-> cls, msg |-> msg, http_status |-> http_status,
     error_code |-> error_code, response_body |-> response_body, value |-> NoneVal]

\* An exception of Python itself: KeyError(key), TypeError.
BuiltinError(cls, what) ==
    [kind |-> "raise", cls |-> cls, msg |-> what, http_status |-> 0,
     error_code |-> "", response_body |-> 0, value |-> NoneVal]

GAuthifyErrors ==
    {"ApiKeyError", "ParameterError", "NotFoundError", "ConflictError",
     "ServerError", "RateLimitError"}

ServerError ==
    GAuthifyError("ServerError",
        "Communication error with all accesspoints. Please contact support@gauthify.com for help.",
        500, "500", 0)

-----------------------------------------------------------------------------
(* The client: __init__ *)

alpha == "https://alpha.gauthify.com/v1/"
beta == "https://beta.gauthify.com/v1/"
blah == "https://blah.gauthify.com/v1/"

api_key == "KEY"

\* base64.b64encode(s), kept symbolic: the encoding of s is not s.
b64encode(s) == "b64(" \o s \o ")"

InitAccessPoints == <<alpha, beta>>

InitHeaders ==
    [Authorization |-> "Basic " \o b64encode(":" \o api_key),
     UserAgent |-> "GAuthify-Python/v2.01"]

\* The endpoint lists a caller installs in place of the constructor's.
EndpointLists ==
    UNION { [1..n -> {alpha, beta}] : n \in 0..MaxEndpoints }

-----------------------------------------------------------------------------
(* request_handler *)

\* json_resp.get('data'): None when the key is missing.
Get_data(j) == IF j.data = NoData THEN NoneVal ELSE j.data

\* The same test with 409 missing from the list of recognized codes.
TransportFailure_without409(status, j) ==
    ~j.isdict \/ (status > 400 /\ status \notin {401, 402, 406, 404})

\* The test that makes the handler give up an endpoint whose response arrived.
TransportFailure(status, j) ==
    ~j.isdict \/ (status > 400 /\ status \notin {401, 402, 406, 404, 409})

\* base_url == self.access_points[-1]
IsLast(base_url, aps) == base_url = aps[Len(aps)]

\* d['error_message'] and d['error_code'], in the order the raise evaluates them.
ErrorFields(cls, status, j, r) ==
    IF j.error_message = Absent THEN BuiltinError("KeyError", "error_message")
    ELSE IF j.error_code = Absent THEN BuiltinError("KeyError", "error_code")
    ELSE GAuthifyError(cls, j.error_message, status, j.error_code, r)

\* What follows the loop: the error for the status code, or the data.
Classify(status, j, r) ==
    IF status = 401 THEN ErrorFields("ApiKeyError", status, j, r)
    ELSE IF status = 402 THEN ErrorFields("RateLimitError", status, j, r)
    ELSE IF status = 406 THEN ErrorFields("ParameterError", status, j, r)
    ELSE IF status = 404 THEN ErrorFields("NotFoundError", status, j, r)
    ELSE IF status = 409 THEN ErrorFields("ConflictError", status, j, r)
    ELSE Return(Get_data(j))

Attempt(url, resp) ==
    [url |-> url, exc |-> resp.exc, status |-> resp.status, json |-> resp.json]

\* The except clause: ServerError at the last access point, else continue.
Except ==
    IF IsLast(access_points[idx + 1], access_points)
    THEN /\ rh' = ServerError
         /\ pc' = "finish"
         /\ idx' = idx
    ELSE /\ rh' = rh
         /\ pc' = "request"
         /\ idx' = idx + 1

\* One pass of the loop in which requests.request raises a RequestException.
request_raises ==
    /\ pc = "request"
    /\ idx < Len(access_points)
    /\ attempts' = Append(attempts, Attempt(access_points[idx + 1] \o url_addon, Unreachable))
    /\ Except
    /\ UNCHANGED <<access_points, headers, op, args, type, url_addon, params,
                   status_code, json_resp, req, result, current, entry>>

\* One pass of the loop in which the endpoint answers; when the answer is
\* accepted the loop breaks and the lines after it run.
request_responds ==
    /\ pc = "request"
    /\ idx < Len(access_points)
    /\ \E resp \in Responses \ {Unreachable} :
        /\ attempts' = Append(attempts, Attempt(access_points[idx + 1] \o url_addon, resp))
        /\ req' = idx + 1
        /\ status_code' = resp.status
        /\ json_resp' = resp.json
        /\ IF TransportFailure(resp.status, resp.json)
           THEN Except
           ELSE /\ rh' = Classify(resp.status, resp.json, idx + 1)
                /\ pc' = "finish"
                /\ idx' = idx
    /\ UNCHANGED <<access_points, headers, op, args, type, url_addon, params,
                   result, current, entry>>

\* The loop ends because access_points has no entry left (it had none), and
\* the lines after it run on the initial status_code, json_resp and req.
loop_exhausted ==
    /\ pc = "request"
    /\ idx = Len(access_points)
    /\ rh' = Classify(status_code, json_resp, req)
    /\ pc' = "finish"
    /\ UNCHANGED <<access_points, headers, op, args, type, url_addon, params, idx,
                   status_code, json_resp, req, attempts, result, current, entry>>

\* Entry of request_handler, called by a public operation.
request_handler(o, a, t, addon, p) ==
    /\ op' = o
    /\ args' = a
    /\ type' = t
    /\ url_addon' = addon
    /\ params' = p
    /\ json_resp' = EmptyDict
    /\ status_code' = 0
    /\ req' = 0
    /\ idx' = 0
    /\ attempts' = <<>>
    /\ rh' = NoOutcome
    /\ result' = NoOutcome
    /\ pc' = "request"

-----------------------------------------------------------------------------
(* Arguments and parameter mappings of the public operations *)

\* A params dict: a key the dict does not hold has the value Absent.
ParamKeys ==
    {"unique_id", "display_name", "email", "sms_number", "voice_number",
     "meta", "reset_key", "auth_code", "token"}

EmptyParams == [k \in ParamKeys |-> Absent]

Keys(p) == {k \in ParamKeys : p[k] # Absent}

\* Argument values: None (the default of an optional argument), the empty
\* string and a non-empty string; for meta None, {} and {'a': 'b'}.
StrValues == {NoneStr, "", "9162627232"}
MetaValues == {NoneStr, "{}", "{'a': 'b'}"}

\* Python's truth value of a str-or-None and of a dict-or-None.
Truthy(v) == v # NoneStr /\ v # ""
TruthyDict(m) == m # NoneStr /\ m # "{}"

\* json.dumps of a meta dict.
json_dumps(m) ==
    IF m = "{'a': 'b'}" THEN "{\"a\": \"b\"}"
    ELSE IF m = "{}" THEN "{}"
    ELSE "null"

NoArgs ==
    [unique_id |-> NoneStr, display_name |-> NoneStr, email |-> NoneStr,
     sms_number |-> NoneStr, voice_number |-> NoneStr, meta |-> NoneStr,
     reset_key |-> FALSE, auth_code |-> NoneStr, safe_mode |-> FALSE,
     token |-> NoneStr]

\* params[k] = v when cond, as in `if v: params[k] = v`.
SetIf(p, cond, k, v) == IF cond THEN [p EXCEPT ![k] = v] ELSE p

\* create_user sending sms_number without testing it.
create_user_params_sms_unguarded(a) ==
    LET p0 == [EmptyParams EXCEPT !["unique_id"] = a.unique_id,
                                  !["display_name"] = a.display_name]
        p1 == SetIf(p0, TruthyDict(a.meta), "meta", json_dumps(a.meta))
        p2 == SetIf(p1, Truthy(a.email), "email", a.email)
        p3 == [p2 EXCEPT !["sms_number"] = a.sms_number]
    IN  SetIf(p3, Truthy(a.voice_number), "voice_number", a.voice_number)

create_user_params(a) ==
    LET p0 == [EmptyParams EXCEPT !["unique_id"] = a.unique_id,
                                  !["display_name"] = a.display_name]
        p1 == SetIf(p0, TruthyDict(a.meta), "meta", json_dumps(a.meta))
        p2 == SetIf(p1, Truthy(a.email), "email", a.email)
        p3 == SetIf(p2, Truthy(a.sms_number), "sms_number", a.sms_number)
    IN  SetIf(p3, Truthy(a.voice_number), "voice_number", a.voice_number)

update_user_params(a) ==
    LET p1 == SetIf(EmptyParams, Truthy(a.email), "email", a.email)
        p2 == SetIf(p1, Truthy(a.sms_number), "sms_number", a.sms_number)
        p3 == SetIf(p2, Truthy(a.voice_number), "voice_number", a.voice_number)
        p4 == SetIf(p3, TruthyDict(a.meta), "meta", json_dumps(a.meta))
    IN  SetIf(p4, a.reset_key, "reset_key", "true")

send_sms_params(a) ==
    SetIf([EmptyParams EXCEPT !["unique_id"] = a.unique_id],
          Truthy(a.sms_number), "sms_number", a.sms_number)

send_email_params(a) ==
    SetIf([EmptyParams EXCEPT !["unique_id"] = a.unique_id],
          Truthy(a.email), "email", a.email)

send_voice_params(a) ==
    SetIf([EmptyParams EXCEPT !["unique_id"] = a.unique_id],
          Truthy(a.voice_number), "voice_number", a.voice_number)

check_auth_params(a) ==
    [EmptyParams EXCEPT !["auth_code"] = a.auth_code, !["unique_id"] = a.unique_id]

get_user_by_token_params(a) == [EmptyParams EXCEPT !["token"] = a.token]

\* "users/{}/".format(unique_id)
users_url(unique_id) == "users/" \o unique_id \o "/"

-----------------------------------------------------------------------------
(* Public operations *)

\* A public operation starts on a client that is executing none.
Callable == pc = "idle"

Enter ==
    /\ Callable
    /\ entry' = [access_points |-> access_points, headers |-> headers]

create_user(a) ==
    /\ Enter
    /\ request_handler("create_user", a, "post", "users/", create_user_params(a))
    /\ UNCHANGED <<access_points, headers, current>>

update_user(a) ==
    /\ Enter
    /\ request_handler("update_user", a, "put", users_url(a.unique_id),
                       update_user_params(a))
    /\ UNCHANGED <<access_points, headers, current>>

delete_user(a) ==
    /\ Enter
    /\ request_handler("delete_user", a, "delete", users_url(a.unique_id), EmptyParams)
    /\ UNCHANGED <<access_points, headers, current>>

get_all_users ==
    /\ Enter
    /\ request_handler("get_all_users", NoArgs, "get", "users/", EmptyParams)
    /\ UNCHANGED <<access_points, headers, current>>

get_user(a) ==
    /\ Enter
    /\ request_handler("get_user", a, "get", users_url(a.unique_id), EmptyParams)
    /\ UNCHANGED <<access_points, headers, current>>

check_auth(a) ==
    /\ Enter
    /\ request_handler("check_auth", a, "post", "check/", check_auth_params(a))
    /\ UNCHANGED <<access_points, headers, current>>

get_user_by_token(a) ==
    /\ Enter
    /\ request_handler("get_user_by_token", a, "post", "token/",
                       get_user_by_token_params(a))
    /\ UNCHANGED <<access_points, headers, current>>

send_sms(a) ==
    /\ Enter
    /\ request_handler("send_sms", a, "post", "sms/", send_sms_params(a))
    /\ UNCHANGED <<access_points, headers, current>>

send_email(a) ==
    /\ Enter
    /\ request_handler("send_email", a, "post", "email/", send_email_params(a))
    /\ UNCHANGED <<access_points, headers, current>>

send_voice(a) ==
    /\ Enter
    /\ request_handler("send_voice", a, "post", "voice/", send_voice_params(a))
    /\ UNCHANGED <<access_points, headers, current>>

api_errors ==
    /\ Enter
    /\ request_handler("api_errors", NoArgs, "get", "errors/", EmptyParams)
    /\ UNCHANGED <<access_points, headers, current>>

\* quick_test, step 9 ("Testing backup server"): the steps before it are calls
\* of the operations above and leave the client as it is.
quick_test_backup_server ==
    /\ Enter
    /\ IF Len(access_points) = 0
       THEN \* self.access_points[0] of an empty list
            /\ op' = "quick_test"
            /\ result' = BuiltinError("IndexError", "list index out of range")
            /\ pc' = "done"
            /\ UNCHANGED <<access_points, args, type, url_addon, params, idx,
                           status_code, json_resp, req, attempts, rh, current>>
       ELSE /\ current' = access_points[1]
            /\ access_points' = [access_points EXCEPT ![1] = blah]
            /\ request_handler("quick_test", NoArgs, "get", "users/", EmptyParams)
    /\ UNCHANGED headers

\* response['authenticated']
Getitem_authenticated(v) ==
    IF v = AuthTrue THEN Return(TrueVal)
    ELSE IF v = AuthFalse THEN Return(FalseVal)
    ELSE IF v.type = "dict" THEN BuiltinError("KeyError", "authenticated")
    ELSE BuiltinError("TypeError", v.type)

\* check_auth swallowing every GAuthifyError, whatever safe_mode says.
check_auth_result_always_safe(r, safe_mode) ==
    IF r.kind = "return" THEN Getitem_authenticated(r.value)
    ELSE IF r.cls \in GAuthifyErrors THEN Return(TrueVal)
    ELSE r

\* check_auth's try/except around the request.
check_auth_result(r, safe_mode) ==
    IF r.kind = "return" THEN Getitem_authenticated(r.value)
    ELSE IF r.cls \in GAuthifyErrors
         THEN (IF safe_mode THEN Return(TrueVal) ELSE r)
         ELSE r

\* `return self.request_handler(...)`: the operation ends as the handler did.
operation_returns ==
    /\ pc = "finish"
    /\ op \notin {"check_auth", "quick_test"}
    /\ result' = rh
    /\ pc' = "done"
    /\ UNCHANGED <<access_points, headers, op, args, type, url_addon, params, idx,
                   status_code, json_resp, req, attempts, rh, current, entry>>

check_auth_returns ==
    /\ pc = "finish"
    /\ op = "check_auth"
    /\ result' = check_auth_result(rh, args.safe_mode)
    /\ pc' = "done"
    /\ UNCHANGED <<access_points, headers, op, args, type, url_addon, params, idx,
                   status_code, json_resp, req, attempts, rh, current, entry>>

\* quick_test after get_all_users: the first access point is put back when the
\* call returned; an exception leaves quick_test at once.
quick_test_returns ==
    /\ pc = "finish"
    /\ op = "quick_test"
    /\ IF rh.kind = "return"
       THEN /\ access_points' = [access_points EXCEPT ![1] = current]
            /\ result' = Return(NoneVal)
       ELSE /\ access_points' = access_points
            /\ result' = rh
    /\ pc' = "done"
    /\ UNCHANGED <<headers, op, args, type, url_addon, params, idx,
                   status_code, json_resp, req, attempts, rh, current, entry>>

\* The caller has the outcome; the frames of the finished call are gone.
caller_resumes ==
    /\ pc = "done"
    /\ pc' = "idle"
    /\ op' = ""
    /\ args' = NoArgs
    /\ type' = ""
    /\ url_addon' = ""
    /\ params' = EmptyParams
    /\ idx' = 0
    /\ status_code' = 0
    /\ json_resp' = EmptyDict
    /\ req' = 0
    /\ attempts' = <<>>
    /\ rh' = NoOutcome
    /\ result' = NoOutcome
    /\ current' = ""
    /\ entry' = [access_points |-> access_points, headers |-> headers]
    /\ UNCHANGED <<access_points, headers>>

\* The caller replaces the endpoint list of a client that is executing nothing.
install_access_points ==
    /\ pc = "idle"
    /\ \E l \in EndpointLists : access_points' = l
    /\ UNCHANGED <<headers, pc, op, args, type, url_addon, params, idx,
                   status_code, json_resp, req, attempts, rh, result, current, entry>>

-----------------------------------------------------------------------------
(* The client in use *)

account_name == "testuser@gauthify.com"

\* The calls quick_test makes.
QuickTestArgs ==
    [NoArgs EXCEPT !.unique_id = account_name, !.display_name = account_name,
                   !.email = "firsttest@gauthify.com", !.sms_number = "9162627232",
                   !.voice_number = "9162627234", !.meta = "{'a': 'b'}",
                   !.auth_code = "112345", !.token = "token"]

Init ==
    /\ access_points = InitAccessPoints
    /\ headers = InitHeaders
    /\ pc = "idle"
    /\ op = ""
    /\ args = NoArgs
    /\ type = ""
    /\ url_addon = ""
    /\ params = EmptyParams
    /\ idx = 0
    /\ status_code = 0
    /\ json_resp = EmptyDict
    /\ req = 0
    /\ attempts = <<>>
    /\ rh = NoOutcome
    /\ result = NoOutcome
    /\ current = ""
    /\ entry = [access_points |-> InitAccessPoints, headers |-> InitHeaders]

\* The calls of the operations, as quick_test makes them, and their steps.
Operate ==
    \/ create_user(QuickTestArgs)
    \/ update_user(QuickTestArgs)
    \/ delete_user(QuickTestArgs)
    \/ get_all_users
    \/ get_user(QuickTestArgs)
    \/ \E sm \in BOOLEAN : check_auth([QuickTestArgs EXCEPT !.safe_mode = sm])
    \/ get_user_by_token(QuickTestArgs)
    \/ send_sms(QuickTestArgs)
    \/ send_email(QuickTestArgs)
    \/ send_voice(QuickTestArgs)
    \/ api_errors
    \/ quick_test_backup_server
    \/ request_raises
    \/ request_responds
    \/ operation_returns
    \/ check_auth_returns
    \/ quick_test_returns
    \/ caller_resumes

\* The client as constructed: access_points holds the two endpoints of
\* __init__, but for quick_test's replacement of the first.
Next == Operate

Spec == Init /\ [][Next]_vars

\* The client with any endpoint list installed by its caller.
NextLists ==
    \/ Operate
    \/ install_access_points
    \/ loop_exhausted

SpecLists == Init /\ [][NextLists]_vars

-----------------------------------------------------------------------------
(* Parameter marshalling on its own: every combination of optional arguments *)

OptionalArgs ==
    { [QuickTestArgs EXCEPT !.email = e, !.sms_number = s, !.voice_number = v,
                            !.meta = m, !.reset_key = r] :
        e \in {NoneStr, "", "test@gauthify.com"}, s \in StrValues, v \in StrValues,
        m \in MetaValues, r \in BOOLEAN }

\* create_user and the send_ operations have no reset_key argument.
WithoutResetKey == { a \in OptionalArgs : ~a.reset_key }

NextParams ==
    \/ \E a \in WithoutResetKey : create_user(a)
    \/ \E a \in OptionalArgs : update_user(a)
    \/ \E a \in WithoutResetKey : send_sms(a)
    \/ \E a \in WithoutResetKey : send_email(a)
    \/ \E a \in WithoutResetKey : send_voice(a)

SpecParams == Init /\ [][NextParams]_vars

-----------------------------------------------------------------------------
(* Vocabulary of the properties *)

Recognized == {401, 402, 404, 406, 409}

ExpectedError(s) ==
    CASE s = 401 -> "ApiKeyError"
      [] s = 402 -> "RateLimitError"
      [] s = 404 -> "NotFoundError"
      [] s = 406 -> "ParameterError"
      [] s = 409 -> "ConflictError"
      [] OTHER -> ""

\* The data field of a body, None when it has none.
DataOf(j) == IF j.data = NoData THEN NoneVal ELSE j.data

\* A response that the specification counts as a transport failure.
FailedAttempt(a) ==
    a.exc \/ ~a.json.isdict \/ (a.status >= 400 /\ a.status \notin Recognized)

\* A response with a JSON-object body and a success status.
SuccessAttempt(a) == ~a.exc /\ a.json.isdict /\ a.status < 400

\* A response with a JSON-object body and a recognized error status.
ErrorAttempt(a) == ~a.exc /\ a.json.isdict /\ a.status \in Recognized

Structured(a) == SuccessAttempt(a) \/ ErrorAttempt(a)

Last == attempts[Len(attempts)]

\* request_handler has ended and its caller has not yet acted on the outcome.
HandlerEnded == pc = "finish"


IsServerError(o) == o.kind = "raise" /\ o.cls = "ServerError"

PublicOperations ==
    {"create_user", "update_user", "delete_user", "get_all_users", "get_user",
     "check_auth", "get_user_by_token", "send_sms", "send_email", "send_voice",
     "api_errors"}

-----------------------------------------------------------------------------
(* Properties *)

\* C1: a JSON-object response with status 401, 402, 404, 406 or 409 makes
\* request_handler raise ApiKeyError, RateLimitError, NotFoundError,
\* ParameterError, ConflictError respectively, carrying the status code, the
\* body's error_message as msg and its error_code as error_code.
C1_ClassifiedError ==
    (HandlerEnded /\ attempts # <<>> /\ ErrorAttempt(Last)) =>
        /\ rh.kind = "raise"
        /\ rh.cls = ExpectedError(Last.status)
        /\ rh.http_status = Last.status
        /\ rh.msg = Last.json.error_message
        /\ rh.error_code = Last.json.error_code

\* C2: a response whose body is no JSON object, or whose status is >= 400 and
\* not recognized, is not accepted: the handler moves on to the next endpoint,
\* and when there is none it raises ServerError.
C2_BadResponseFailsOver ==
    \A j \in 1..Len(attempts) :
        (~attempts[j].exc /\ FailedAttempt(attempts[j])) =>
            IF j < Len(access_points)
            THEN Len(attempts) > j \/ (pc = "request" /\ idx = j)
            ELSE pc \in {"finish", "done"} /\ IsServerError(rh)

\* C3: when every endpoint before position k fails at transport level, endpoint
\* k is asked, and when it answers with a success status and a JSON object the
\* handler returns the data field of that answer.
C3_FirstSuccessWins ==
    HandlerEnded =>
        \A k \in 1..Len(access_points) :
            (Len(attempts) >= k - 1 /\ \A j \in 1..(k - 1) : FailedAttempt(attempts[j])) =>
                /\ Len(attempts) >= k
                /\ SuccessAttempt(attempts[k]) => rh = Return(DataOf(attempts[k].json))

\* C4: the entries are attempted in list order, each at most once, and
\* ServerError is raised exactly when every entry has been attempted and every
\* attempt failed at transport level.
C4_ServerErrorIffAllFailed ==
    HandlerEnded =>
        /\ Len(attempts) <= Len(access_points)
        /\ \A j \in 1..Len(attempts) : attempts[j].url = access_points[j] \o url_addon
        /\ IsServerError(rh) <=>
               /\ Len(attempts) = Len(access_points)
               /\ \A j \in 1..Len(attempts) : FailedAttempt(attempts[j])

\* C5: once an endpoint has given a structured response (a JSON object with a
\* success status or with 401, 402, 404, 406, 409), no later endpoint is
\* contacted in that call, and the data returned or the classified error raised
\* comes from that response.
C5_NoFailoverAfterStructured ==
    /\ \A j \in 1..Len(attempts) : Structured(attempts[j]) => j = Len(attempts)
    /\ (attempts # <<>> /\ Structured(Last)) =>
        /\ pc # "request"
        /\ rh.kind = "return" => rh.value = DataOf(Last.json)
        /\ rh.kind = "raise" => ~IsServerError(rh)
        /\ (rh.kind = "raise" /\ rh.cls \in GAuthifyErrors) =>
            /\ rh.http_status = Last.status
            /\ rh.msg = Last.json.error_message
            /\ rh.error_code = Last.json.error_code
            /\ rh.response_body = Len(attempts)

\* A structured response came from the first of several endpoints and the call
\* is over.
C5_Witness ==
    /\ pc = "done"
    /\ Len(access_points) >= 2
    /\ Len(attempts) = 1
    /\ ErrorAttempt(attempts[1])
    /\ attempts[1].status = 409
    /\ rh.cls = "ConflictError"

\* C6: check_auth with safe_mode=True returns True and raises nothing for every
\* error condition: a response with status 401, 402, 404, 406 or 409, whatever
\* its body holds, and the failure of all endpoints.
C6_SafeModeNeverRaises ==
    (/\ pc = "done"
     /\ op = "check_auth"
     /\ args.safe_mode
     /\ \/ IsServerError(rh)
        \/ (attempts # <<>> /\ ErrorAttempt(Last))) =>
        result = Return(TrueVal)

\* C7: check_auth with safe_mode=False raises the very error request_handler
\* raised, and returns a value only when request_handler returned one.
C7_UnsafeModePropagates ==
    (pc = "done" /\ op = "check_auth" /\ ~args.safe_mode) =>
        /\ rh.kind = "raise" => result = rh
        /\ result.kind = "return" => rh.kind = "return"

\* check_auth(safe_mode=False) ended after request_handler raised NotFoundError.
C7_Witness ==
    /\ pc = "done"
    /\ op = "check_auth"
    /\ ~args.safe_mode
    /\ rh.kind = "raise"
    /\ rh.cls = "NotFoundError"

\* C8: a public operation ends by returning a value taken from a response the
\* handler accepted (the JSON object that ended its loop) or by raising one of
\* the six typed errors; nothing else escapes and nothing is returned without
\* an accepted response.
C8_DataOrTypedError ==
    (pc = "done" /\ op \in PublicOperations) =>
        \/ /\ result.kind = "return"
           /\ attempts # <<>>
           /\ ~Last.exc
           /\ Last.json.isdict
           /\ op # "check_auth" => result.value = DataOf(Last.json)
        \/ /\ result.kind = "raise"
           /\ result.cls \in GAuthifyErrors

\* The optional arguments of an operation and the keys it always sends.
OptionalKeys(o) ==
    CASE o = "create_user" -> {"email", "sms_number", "voice_number", "meta"}
      [] o = "update_user" -> {"email", "sms_number", "voice_number", "meta", "reset_key"}
      [] o = "send_sms" -> {"sms_number"}
      [] o = "send_email" -> {"email"}
      [] o = "send_voice" -> {"voice_number"}
      [] OTHER -> {}

RequiredKeys(o) ==
    CASE o = "create_user" -> {"unique_id", "display_name"}
      [] o \in {"send_sms", "send_email", "send_voice"} -> {"unique_id"}
      [] OTHER -> {}

Marshalled ==
    pc = "request" /\ op \in {"create_user", "update_user", "send_sms", "send_email", "send_voice"}

\* An optional argument the caller supplied: it differs from its default.
SuppliedKeys ==
    { k \in OptionalKeys(op) \ {"reset_key"} : args[k] # NoneStr }
    \cup (IF "reset_key" \in OptionalKeys(op) /\ args.reset_key THEN {"reset_key"} ELSE {})

\* An optional argument supplied with a value that is not empty.
NonEmptyKeys ==
    { k \in OptionalKeys(op) \ {"reset_key"} : args[k] \notin {NoneStr, "", "{}"} }
    \cup (IF "reset_key" \in OptionalKeys(op) /\ args.reset_key THEN {"reset_key"} ELSE {})

\* C9 as stated: the mapping handed to request_handler holds the required keys
\* and exactly the keys of the optional arguments the caller supplied.
C9_SuppliedKeysSent ==
    Marshalled => Keys(params) = RequiredKeys(op) \cup SuppliedKeys

\* C9 amended: the mapping holds the required keys and exactly the keys of the
\* optional arguments supplied with a non-empty value (a non-empty string, a
\* non-empty meta, reset_key=True); an argument left out or supplied empty has
\* no key, and no optional key carries an empty or null value.
C9_NonEmptyKeysSent ==
    Marshalled =>
        /\ Keys(params) = RequiredKeys(op) \cup NonEmptyKeys
        /\ \A k \in Keys(params) \cap OptionalKeys(op) :
               params[k] \notin {NoneStr, "", "{}", "null"}

\* create_user was called with email='', a phone number for sms and no voice
\* number: only the sms number is sent besides the required keys.
C9_Witness ==
    /\ Marshalled
    /\ op = "create_user"
    /\ args.email = ""
    /\ args.sms_number = "9162627232"
    /\ args.voice_number = NoneStr
    /\ Keys(params) = {"unique_id", "display_name", "sms_number"}

\* C10: access_points and headers are the same when a public operation or
\* quick_test ends, by return or by exception, as when it started.
C10_ClientUnchanged ==
    pc = "done" =>
        /\ access_points = entry.access_points
        /\ headers = entry.headers

====
